---- MODULE Spec2Model ----
(***************************************************************************)
(* Model of qt-web-extractor's extraction server:                          *)
(*   - the HTTP handler thread (server.py, _Handler) that builds an        *)
(*     _ExtractRequest, puts it on extract_queue and waits on req.done;    *)
(*   - the main/Qt thread: poll_queue (server.py), handle_signal, and      *)
(*     QtWebExtractor.extract / extract_pdf (extractor.py);                *)
(*   - the _WebPage callback state machine (extractor.py).                 *)
(*                                                                         *)
(* Time is discrete: one Tick is TickMs milliseconds.  A QTimer is a      *)
(* countdown (-1 = not running, 0 = elapsed and ready to fire); Qt may     *)
(* deliver a timeout late but never early.                                 *)
(***************************************************************************)
EXTENDS Integers, Sequences, FiniteSets, TLC

\* ------------------------------------------------------------------ bounds
MaxJobs == 2          \* number of _ExtractRequest objects ever created
MaxLoadSignals == 2   \* loadFinished signals the engine delivers per page
MaxBatch == 2         \* length of a batch "urls" list
MaxWideBatch == 3     \* length of a batch "urls" list under BatchSpec
BatchTimeoutMs == 2000  \* serve()'s timeout_ms under BatchSpec
MaxTimeoutMs == 5000  \* largest timeout_ms ServeSpec configures

TimeoutMsChoices == {2000, 4000}   \* values of serve(timeout_ms=...)

Jobs == 1..MaxJobs

\* --------------------------------------------------------------- constants
MsPerSecond == 1000              \* timeout_ms // 1000
StabilityIntervalMs == 2000      \* _stability_timer.setInterval(2000)
HandlerGraceS == 10              \* timeout_ms // 1000 + 10
Sentinel == 0                    \* extract_queue.put(None): the poison pill

TimedOutError == "Timed out (partial content may be available)"
LoadFailedError == "Page load reported failure (content may be incomplete)"
NoResultError == "Extraction failed: no result received"
PdfNotReadyError == "Failed to load PDF: Error"
PdfExceptionError == "str(e)"
OuterTimeoutError == "extraction timed out"

\* Optional values: None is <<>>, a present value v is <<v>>.
None == <<>>
Some(v) == <<v>>

\* ---------------------------------------------------------------- inputs
\* URLs: "  " is blank after strip(); "/d/doc.pdf" has the .pdf suffix; for
\* "http://h/x" the HEAD request decides.  Clients submit the URLs of Urls;
\* whether a job is a PDF job is then decided by the HEAD response or by the
\* request's "pdf" member.
BlankUrl == "  "
PdfPathUrl == "/d/doc.pdf"
HttpUrl == "http://h/x"
Urls == {BlankUrl, HttpUrl}

Strip(u) == IF u = BlankUrl THEN "" ELSE u

\* _detect_pdf: the .pdf suffix is the fast path; non-http(s) schemes are not
\* PDFs; otherwise the Content-Type of the HEAD response (headPdf) decides.
detect_pdf(u, headPdf) ==
    IF u = PdfPathUrl THEN TRUE
    ELSE IF u # HttpUrl THEN FALSE
    ELSE headPdf

\* _detect_pdf sends the HEAD request for u: urlopen blocks the calling
\* thread for up to 10 s.
SendsHead(u) == u = HttpUrl

\* What the engine reports for a loaded page.
EngineTitle == "title"
EngineUrl == "http://h/x/final"
EngineText == "text"
EngineHtml == "<html>"

\* _ExtractionResult.__init__
ExtractionResult(url, title, text, html, error) ==
    [url |-> url, title |-> title, text |-> text, html |-> html, error |-> error]

\* --------------------------------------------------------------- variables
VARIABLES
    timeout_ms,         \* serve(timeout_ms): extractor._timeout_ms
    extract_queue,      \* queue.Queue of job ids and Sentinel
    nextReq,            \* id of the next _ExtractRequest to be constructed
    req,                \* job id -> _ExtractRequest fields (url, pdf, result, done)
    handler,            \* the single server thread / current _Handler
    shutdown_request,   \* HTTPServer.__shutdown_request
    serving,            \* serve_forever loop still running
    shutting_down,      \* serve.shutting_down
    mainBlocked,        \* main thread is inside server.shutdown()
    poll_timer_active,  \* poll_timer is running
    app_quit,           \* app.quit() has been called
    stack,              \* poll_queue invocations in progress (innermost last)
    jobPc,              \* job id -> position of its poll_queue invocation:
                        \* "new" (not dequeued), "taken" (get_nowait has
                        \* taken it off the queue, extract is not called
                        \* yet), "loop", "pdf", "returned", "finished"
    pages,              \* extractor._pages
    page,               \* job id -> its _WebPage
    response,           \* the last HTTP response sent
    sentinelDequeued,   \* history: poll_queue has seen the poison pill
    signalledDuring,    \* history: the job in progress when shutdown began (0: none)
    abandoned,          \* history: the jobs whose handler's wait timed out
    lock_held,          \* the lock the main thread holds while handle_signal
                        \* runs: "none", "queue" (Queue.mutex, inside
                        \* get_nowait) or "event" (the lock of the Event of
                        \* the job in progress, inside done.set)
    api_key,            \* _Handler.api_key, as a sequence of characters
    request,            \* the POST request a client sends over and over (None:
                        \* clients send the requests of PostExtract and PostBatch)
    hist                \* job id -> history (observation only)

vars == <<timeout_ms, extract_queue, nextReq, req, handler,
          shutdown_request, serving, shutting_down, mainBlocked,
          poll_timer_active, app_quit, stack, jobPc, pages, page, response,
          sentinelDequeued, signalledDuring, abandoned, lock_held,
          api_key,
                   request, hist>>

\* ------------------------------------------------------------------ timers
\* One Tick of the model's clock is one settle interval.
TickMs == StabilityIntervalMs
Ticks(ms) == (ms + TickMs - 1) \div TickMs
StabilityTicks == Ticks(StabilityIntervalMs)
TimeoutTicks == Ticks(timeout_ms)
\* (variant: the grace is left out)
timeout_s_no_grace == timeout_ms \div MsPerSecond

\* _Handler.timeout_s = timeout_ms // 1000 + 10
timeout_s == timeout_ms \div MsPerSecond + HandlerGraceS
WaitTicks == Ticks(timeout_s * MsPerSecond)

Dec(c) == IF c > 0 THEN c - 1 ELSE c

\* _WebPage.__init__(profile, timeout_ms=30000)
DefaultTimeoutMs == 30000

\* ------------------------------------------------------------------- _WebPage
\* _WebPage.__init__: no timer running, empty result.
NewPage ==
    [alive |-> FALSE, settled |-> FALSE, load_ok |-> FALSE,
     stability |-> -1, timeout |-> -1,
     result |-> ExtractionResult("", "", "", "", ""),
     textPending |-> 0, htmlPending |-> 0,
     result_holder |-> 0, loopQuit |-> FALSE]

\* (variant: the page is constructed with the default timeout_ms)
start_loading_default_timeout(p, url) ==
    [p EXCEPT !.alive = TRUE,
              !.result = [p.result EXCEPT !.url = url],
              !.timeout = Ticks(DefaultTimeoutMs)]

\* _WebPage.start_loading
start_loading(p, url) ==
    [p EXCEPT !.alive = TRUE,
              !.result = [p.result EXCEPT !.url = url],
              !.timeout = TimeoutTicks]

\* (variant: the load-failure error is attached whatever _load_ok says)
extract_content_always_failure(p, timed_out) ==
    IF p.settled THEN p
    ELSE [p EXCEPT
            !.result = [p.result EXCEPT
                          !.title = EngineTitle,
                          !.url = EngineUrl,
                          !.error = IF timed_out THEN TimedOutError
                                    ELSE LoadFailedError],
            !.textPending = p.textPending + 1]

\* _WebPage._extract_content
extract_content(p, timed_out) ==
    IF p.settled THEN p
    ELSE [p EXCEPT
            !.result = [p.result EXCEPT
                          !.title = EngineTitle,
                          !.url = EngineUrl,
                          !.error = IF timed_out THEN TimedOutError
                                    ELSE IF ~p.load_ok THEN LoadFailedError
                                    ELSE p.result.error],
            !.textPending = p.textPending + 1]

\* (variant: a successful load starts extraction at once, without the settle delay)
on_load_finished_eager(p, ok) ==
    IF p.settled THEN p
    ELSE IF ok THEN extract_content([p EXCEPT !.load_ok = TRUE], FALSE)
    ELSE [p EXCEPT !.stability = StabilityTicks]

\* _WebPage._on_load_finished
on_load_finished(p, ok) ==
    IF p.settled THEN p
    ELSE [p EXCEPT !.load_ok = IF ok THEN TRUE ELSE p.load_ok,
                   !.stability = StabilityTicks]

\* (variant: the load-timeout does not start extraction)
on_timeout_ignored(p) == p

\* _WebPage._on_timeout
on_timeout(p) ==
    IF p.settled THEN p
    ELSE extract_content([p EXCEPT !.stability = -1], TRUE)

\* _WebPage._on_text_ready
on_text_ready(p, text) ==
    IF p.settled THEN p
    ELSE [p EXCEPT !.result = [p.result EXCEPT !.text = text],
                   !.htmlPending = p.htmlPending + 1]

\* (variant: _settled is not set)
finish_not_settled(p) ==
    [p EXCEPT !.timeout = -1, !.stability = -1,
              !.result_holder = p.result_holder + 1, !.loopQuit = TRUE]

\* _WebPage._finish, with extract.on_done connected to extraction_done
finish(p) ==
    [p EXCEPT !.settled = TRUE, !.timeout = -1, !.stability = -1,
              !.result_holder = p.result_holder + 1, !.loopQuit = TRUE]

\* (variant: no _settled guard)
on_html_ready_unguarded(p, html) ==
    finish([p EXCEPT !.result = [p.result EXCEPT !.html = html]])

\* _WebPage._on_html_ready
on_html_ready(p, html) ==
    IF p.settled THEN p
    ELSE finish([p EXCEPT !.result = [p.result EXCEPT !.html = html]])

\* ------------------------------------------------------------------ history
\* Per job: how often req.result was assigned and req.done set; and, while the
\* job's page exists (cleared when extract() deletes it), what its callbacks
\* did, and whether the load was started while the wait of the handler that
\* pushed the job still had at least timeout_ms to run (prompt).
NewHist ==
    [resultSets |-> 0, doneSets |-> 0,
     textReqs |-> 0, htmlReqs |-> 0, loads |-> 0,
     tmoBeforeLoad |-> FALSE, sinceLoad |-> 0, earlyExtract |-> FALSE,
     prompt |-> FALSE]

PageDeleted(h) ==
    [NewHist EXCEPT !.resultSets = h.resultSets, !.doneSets = h.doneSets]

\* History of one page callback: the toPlainText and toHtml requests it made.
Observe(h, p, q) ==
    [h EXCEPT !.textReqs = h.textReqs + (q.textPending - p.textPending),
              !.htmlReqs = h.htmlReqs + (q.htmlPending - p.htmlPending)]


\* --------------------------------------------------------------------- Init
NewRequest == [url |-> "", pdf |-> FALSE, result |-> None, done |-> FALSE]
IdleHandler ==
    [pc |-> "idle", path |-> "", req |-> 0, waitLeft |-> -1,
     input |-> <<>>, urls |-> <<>>, documents |-> <<>>]

Init ==
    /\ timeout_ms \in TimeoutMsChoices
    /\ extract_queue = <<>>
    /\ nextReq = 1
    /\ req = [j \in Jobs |-> NewRequest]
    /\ handler = IdleHandler
    /\ shutdown_request = FALSE
    /\ serving = TRUE
    /\ shutting_down = FALSE
    /\ mainBlocked = FALSE
    /\ poll_timer_active = TRUE
    /\ app_quit = FALSE
    /\ stack = <<>>
    /\ jobPc = [j \in Jobs |-> "new"]
    /\ pages = <<>>
    /\ page = [j \in Jobs |-> NewPage]
    /\ response = None
    /\ sentinelDequeued = FALSE
    /\ signalledDuring = 0
    /\ abandoned = {}
    /\ lock_held = "none"
    /\ api_key = <<>>
    /\ request = None
    /\ hist = [j \in Jobs |-> NewHist]

Last(s) == s[Len(s)]
Front(s) == SubSeq(s, 1, Len(s) - 1)
\* (variant: the page stays on the list)
Remove_nothing(s, x) == s

RECURSIVE Remove(_, _)
\* list.remove(x): drops the first occurrence
Remove(s, x) ==
    IF s = <<>> THEN <<>>
    ELSE IF Head(s) = x THEN Tail(s)
    ELSE <<Head(s)>> \o Remove(Tail(s), x)

\* ------------------------------------------------------- the Qt event loop
\* The main thread is dispatching events: it is in app.exec() with no slot
\* running, or inside the loop.exec() of the innermost extract() call.
EventLoopRunning ==
    /\ ~mainBlocked
    /\ ~app_quit
    /\ stack # <<>> => jobPc[Last(stack)] = "loop"

\* (variant: the timer is re-activated inside the nested loop)
PollTimerReady_reentrant ==
    poll_timer_active /\ EventLoopRunning

\* poll_timer's timeout is delivered only while the timer runs, and Qt does not
\* re-activate a timer from an event loop nested in that timer's own slot.

PollTimerReady ==
    poll_timer_active /\ EventLoopRunning /\ stack = <<>>

\* Signals, timers and callbacks of page j are delivered by the event loop
\* while the page object exists.
PageEvents(j) == page[j].alive /\ EventLoopRunning /\ stack # <<>>

\* (variant: a LIFO queue)
QueueGet_lifo(q) == [item |-> Last(q), rest |-> Front(q)]

\* queue.Queue.get_nowait(): the oldest item; the queue is FIFO

QueueGet(q) == [item |-> Head(q), rest |-> Tail(q)]

\* ---------------------------------------------------------------- poll_queue
UnchangedServer ==
    UNCHANGED <<timeout_ms, nextReq, handler, shutdown_request,
                serving, shutting_down, mainBlocked, response, signalledDuring,
                abandoned, lock_held, api_key, request>>

\* (variant: an empty queue stops the polling)
PollQueueEmpty_stops ==
    /\ PollTimerReady
    /\ extract_queue = <<>>
    /\ poll_timer_active' = FALSE
    /\ UNCHANGED <<timeout_ms, extract_queue, nextReq, req, handler,
                   shutdown_request, serving, shutting_down, mainBlocked,
                   app_quit, stack, jobPc, pages, page, response,
                   sentinelDequeued, signalledDuring, abandoned, lock_held,
                   api_key,
                   request, hist>>

\* except queue.Empty: return
PollQueueEmpty ==
    /\ PollTimerReady
    /\ extract_queue = <<>>
    /\ UNCHANGED vars

\* (variant: the poison pill is dropped and polling goes on)
PollQueueSentinel_ignored ==
    /\ PollTimerReady
    /\ extract_queue # <<>>
    /\ QueueGet(extract_queue).item = Sentinel
    /\ extract_queue' = QueueGet(extract_queue).rest
    /\ sentinelDequeued' = TRUE
    /\ UnchangedServer
    /\ UNCHANGED <<req, stack, jobPc, pages, page, hist, poll_timer_active, app_quit>>

\* if req is None: poll_timer.stop(); app.quit(); return
PollQueueSentinel ==
    /\ PollTimerReady
    /\ extract_queue # <<>>
    /\ QueueGet(extract_queue).item = Sentinel
    /\ extract_queue' = QueueGet(extract_queue).rest
    /\ poll_timer_active' = FALSE
    /\ app_quit' = TRUE
    /\ sentinelDequeued' = TRUE
    /\ UnchangedServer
    /\ UNCHANGED <<req, stack, jobPc, pages, page, hist>>

\* poll_queue holds a job that get_nowait() returned before handle_signal ran
\* in the middle of poll_queue; extract or extract_pdf is not called yet.
Taken == stack # <<>> /\ jobPc[Last(stack)] = "taken"

\* poll_queue has a job to go on with: the one it holds once handle_signal
\* has returned, or else the one get_nowait() returns now.
HasJob ==
    IF Taken THEN ~mainBlocked
    ELSE /\ PollTimerReady
         /\ extract_queue # <<>>
         /\ QueueGet(extract_queue).item # Sentinel

\* req = extract_queue.get_nowait(), unless poll_queue holds req already
TakeJob ==
    [item |-> IF Taken THEN Last(stack) ELSE QueueGet(extract_queue).item,
     rest |-> IF Taken THEN extract_queue ELSE QueueGet(extract_queue).rest,
     stack |-> IF Taken THEN stack
               ELSE Append(stack, QueueGet(extract_queue).item)]

\* extractor.extract(req.url) up to loop.exec(): the page is created, appended
\* to _pages, and start_loading starts the load-timeout timer.
PollQueuePage ==
    /\ HasJob
    /\ LET j == TakeJob.item IN
        /\ ~req[j].pdf
        /\ extract_queue' = TakeJob.rest
        /\ page' = [page EXCEPT ![j] = start_loading(NewPage, req[j].url)]
        /\ pages' = Append(pages, j)
        /\ stack' = TakeJob.stack
        /\ jobPc' = [jobPc EXCEPT ![j] = "loop"]
        /\ hist' = [hist EXCEPT ![j].prompt =
                       /\ handler.pc = "waiting"
                       /\ handler.req = j
                       /\ handler.waitLeft >= Ticks(timeout_ms)]
    /\ UnchangedServer
    /\ UNCHANGED <<req, poll_timer_active, app_quit, sentinelDequeued>>

\* extractor.extract_pdf(req.url) is entered; it blocks the main thread.
PollQueuePdf ==
    /\ HasJob
    /\ LET j == TakeJob.item IN
        /\ req[j].pdf
        /\ extract_queue' = TakeJob.rest
        /\ stack' = TakeJob.stack
        /\ jobPc' = [jobPc EXCEPT ![j] = "pdf"]
    /\ UnchangedServer
    /\ UNCHANGED <<req, poll_timer_active, app_quit, sentinelDequeued, pages,
                   page, hist>>

\* QtWebExtractor.extract_pdf: the document loads and its text is joined, or
\* the status is not Ready, or an exception is caught.
\* or an exception is caught whose str() is empty.
PdfOutcomes == {"ready", "not_ready", "exception", "exception_no_message"}
\* os.path.basename
Basename(url) == IF url = PdfPathUrl THEN "doc.pdf" ELSE IF url = HttpUrl THEN "x" ELSE ""

\* (variant: an exception leaves the text read so far on the result)
extract_pdf_partial(url, how) ==
    IF how = "ready" THEN ExtractionResult(url, Basename(url), EngineText, "", "")
    ELSE IF how = "not_ready" THEN ExtractionResult(url, "", "", "", PdfNotReadyError)
    ELSE IF how = "exception"
    THEN ExtractionResult(url, "", EngineText, "", PdfExceptionError)
    ELSE ExtractionResult(url, "", EngineText, "", "")

extract_pdf(url, how) ==
    IF how = "ready" THEN ExtractionResult(url, Basename(url), EngineText, "", "")
    ELSE IF how = "not_ready" THEN ExtractionResult(url, "", "", "", PdfNotReadyError)
    ELSE IF how = "exception"
    THEN ExtractionResult(url, "", "", "", PdfExceptionError)
    ELSE ExtractionResult(url, "", "", "", "")

\* (variant: done is set before the result is assigned)
PdfReturns_done_first(how) ==
    /\ ~mainBlocked
    /\ stack # <<>>
    /\ LET j == Last(stack) IN
        /\ jobPc[j] = "pdf"
        /\ req' = [req EXCEPT ![j].done = TRUE]
        /\ jobPc' = [jobPc EXCEPT ![j] = "returned"]
        /\ hist' = [hist EXCEPT ![j].doneSets = @ + 1]
    /\ UnchangedServer
    /\ UNCHANGED <<extract_queue, poll_timer_active, app_quit, sentinelDequeued,
                   stack, pages, page>>

\* result = extractor.extract_pdf(req.url); req.result = result
PdfReturns(how) ==
    /\ ~mainBlocked
    /\ stack # <<>>
    /\ LET j == Last(stack) IN
        /\ jobPc[j] = "pdf"
        /\ req' = [req EXCEPT ![j].result = Some(extract_pdf(req[j].url, how))]
        /\ jobPc' = [jobPc EXCEPT ![j] = "returned"]
        /\ hist' = [hist EXCEPT ![j].resultSets = @ + 1]
    /\ UnchangedServer
    /\ UNCHANGED <<extract_queue, poll_timer_active, app_quit, sentinelDequeued,
                   stack, pages, page>>

\* extract() after loop.exec(): the page is deleted and removed from _pages,
\* the result is result_holder[0] (the page's _result object) or the
\* "no result received" result; then req.result = result.
extract_result(p, url) ==
    IF p.result_holder > 0 THEN p.result
    ELSE ExtractionResult(url, "", "", "", NoResultError)

ExtractReturns ==
    /\ ~mainBlocked
    /\ stack # <<>>
    /\ LET j == Last(stack) IN
        /\ jobPc[j] = "loop"
        /\ page[j].loopQuit \/ app_quit
        /\ req' = [req EXCEPT ![j].result = Some(extract_result(page[j], req[j].url))]
        /\ page' = [page EXCEPT ![j] = NewPage]
        /\ pages' = Remove(pages, j)
        /\ jobPc' = [jobPc EXCEPT ![j] = "returned"]
        /\ hist' = [hist EXCEPT ![j] =
                       PageDeleted([hist[j] EXCEPT !.resultSets = @ + 1])]
    /\ UnchangedServer
    /\ UNCHANGED <<extract_queue, poll_timer_active, app_quit, sentinelDequeued, stack>>

\* req.done.set(); poll_queue returns.  When handle_signal ran inside this
\* very call after the flag was written, the call only goes on to its end.
SetDone ==
    /\ ~mainBlocked
    /\ stack # <<>>
    /\ LET j == Last(stack) IN
        /\ jobPc[j] = "returned"
        /\ req' = [req EXCEPT ![j].done = TRUE]
        /\ stack' = Front(stack)
        /\ jobPc' = [jobPc EXCEPT ![j] = "finished"]
        /\ hist' = [hist EXCEPT ![j].doneSets = IF req[j].done THEN @ ELSE @ + 1]
    /\ UnchangedServer
    /\ UNCHANGED <<extract_queue, poll_timer_active, app_quit, sentinelDequeued,
                   pages, page>>


\* ------------------------------------------------------ _WebPage's callbacks
UnchangedDispatcher ==
    UNCHANGED <<extract_queue, req, poll_timer_active, app_quit,
                sentinelDequeued, stack, jobPc, pages>>

\* A non-timeout event started extraction sooner than the settle delay after
\* the latest loadFinished signal (age: seconds since that signal).
Early(h, p, q, age) ==
    h.earlyExtract \/ (q.textPending > p.textPending /\ age < StabilityTicks)

\* The engine emits loadFinished(ok).
LoadFinished(j, ok) ==
    /\ PageEvents(j)
    /\ hist[j].loads < MaxLoadSignals
    /\ LET p == page[j]
           q == on_load_finished(p, ok)
           h == Observe(hist[j], p, q)
       IN /\ page' = [page EXCEPT ![j] = q]
          /\ hist' = [hist EXCEPT ![j] =
                        [h EXCEPT !.loads = @ + 1,
                                  !.sinceLoad = 0,
                                  !.earlyExtract = Early(h, p, q, 0)]]
    /\ UnchangedServer
    /\ UnchangedDispatcher

\* _stability_timer (single shot) times out: _extract_content()
StabilityTimerFires(j) ==
    /\ PageEvents(j)
    /\ page[j].stability = 0
    /\ LET p == [page[j] EXCEPT !.stability = -1]
           q == extract_content(p, FALSE)
           h == Observe(hist[j], p, q)
       IN /\ page' = [page EXCEPT ![j] = q]
          /\ hist' = [hist EXCEPT ![j] =
                        [h EXCEPT !.earlyExtract = Early(h, p, q, h.sinceLoad)]]
    /\ UnchangedServer
    /\ UnchangedDispatcher

\* _timeout_timer (single shot) times out: _on_timeout()
TimeoutTimerFires(j) ==
    /\ PageEvents(j)
    /\ page[j].timeout = 0
    /\ LET p == [page[j] EXCEPT !.timeout = -1]
           q == on_timeout(p)
           h == Observe(hist[j], p, q)
       IN /\ page' = [page EXCEPT ![j] = q]
          /\ hist' = [hist EXCEPT ![j] =
                        [h EXCEPT !.tmoBeforeLoad = (h.loads = 0)]]
    /\ UnchangedServer
    /\ UnchangedDispatcher

\* The engine answers one toPlainText request.
TextReady(j) ==
    /\ PageEvents(j)
    /\ page[j].textPending > 0
    /\ LET p == [page[j] EXCEPT !.textPending = @ - 1]
           q == on_text_ready(p, EngineText)
       IN /\ page' = [page EXCEPT ![j] = q]
          /\ hist' = [hist EXCEPT ![j] = Observe(hist[j], p, q)]
    /\ UnchangedServer
    /\ UnchangedDispatcher

\* The engine answers one toHtml request.
HtmlReady(j) ==
    /\ PageEvents(j)
    /\ page[j].htmlPending > 0
    /\ LET p == [page[j] EXCEPT !.htmlPending = @ - 1]
           q == on_html_ready(p, EngineHtml)
       IN /\ page' = [page EXCEPT ![j] = q]
          /\ hist' = [hist EXCEPT ![j] = Observe(hist[j], p, q)]
    /\ UnchangedServer
    /\ UnchangedDispatcher

\* ---------------------------------------------------------------------- time
\* One Tick passes: running timers and the handler's wait count down.  The
\* poll timer's 50 ms interval is shorter than a Tick: while the event loop is
\* free to run poll_queue, a queued item is dequeued before the Tick is over.
\* Likewise a page timer that has run out is delivered before the Tick is
\* over while the event loop dispatches that page's events; it is late only
\* while the main thread is blocked.
TimerDue(j) ==
    PageEvents(j) /\ (page[j].timeout = 0 \/ page[j].stability = 0)

TickPage(p) ==
    IF p.alive THEN [p EXCEPT !.stability = Dec(@), !.timeout = Dec(@)] ELSE p

TickHist(h, p) ==
    IF p.alive /\ h.loads > 0 /\ h.sinceLoad < StabilityTicks
    THEN [h EXCEPT !.sinceLoad = @ + 1] ELSE h

Tick ==
    /\ ~(PollTimerReady /\ extract_queue # <<>>)
    /\ ~(Taken /\ ~mainBlocked)
    /\ \A j \in Jobs : ~TimerDue(j)
    /\ page' = [j \in Jobs |-> TickPage(page[j])]
    /\ hist' = [j \in Jobs |-> TickHist(hist[j], page[j])]
    /\ handler' = [handler EXCEPT !.waitLeft = Dec(@)]
    /\ <<page', hist', handler'>> # <<page, hist, handler>>
    /\ UNCHANGED <<timeout_ms, extract_queue, nextReq, req,
                   shutdown_request, serving, shutting_down,
                   mainBlocked, poll_timer_active, app_quit, stack, jobPc,
                   pages, response, sentinelDequeued, signalledDuring,
                   abandoned, lock_held, api_key, request>>

\* ------------------------------------------------------------- handle_signal
\* SIGINT/SIGTERM: Python runs the handler on the main thread.  The first call
\* puts the poison pill and blocks in server.shutdown() until serve_forever
\* has left its loop; a later call returns at once.
HandleSignal ==
    /\ ~mainBlocked
    /\ IF shutting_down
       THEN UNCHANGED <<shutting_down, extract_queue, shutdown_request,
                        mainBlocked, signalledDuring>>
       ELSE /\ shutting_down' = TRUE
            /\ extract_queue' = Append(extract_queue, Sentinel)
            /\ shutdown_request' = TRUE
            /\ mainBlocked' = TRUE
            /\ signalledDuring' = IF stack # <<>> /\ jobPc[Last(stack)] \in {"loop", "pdf"}
                                   THEN Last(stack) ELSE 0
    /\ UNCHANGED <<timeout_ms, nextReq, req, handler, serving,
                   poll_timer_active, app_quit, stack, jobPc, pages, page,
                   response, sentinelDequeued, abandoned, lock_held, api_key,
                   request, hist>>

\* The first signal arrives while poll_queue is inside
\* extract_queue.get_nowait(), which holds the non-reentrant Queue.mutex:
\* handle_signal's extract_queue.put(None) waits for that mutex for ever.
\* No pill is put and server.shutdown() is never called.  The signal is
\* handled before get_nowait() has looked at the queue, or (popped) after it
\* has taken a job off it; that job is never begun.
HandleSignalInGet(popped) ==
    /\ PollTimerReady
    /\ ~shutting_down
    /\ shutting_down' = TRUE
    /\ mainBlocked' = TRUE
    /\ lock_held' = "queue"
    /\ IF popped
       THEN /\ extract_queue # <<>>
            /\ extract_queue' = QueueGet(extract_queue).rest
            /\ stack' = Append(stack, QueueGet(extract_queue).item)
            /\ jobPc' = [jobPc EXCEPT ![QueueGet(extract_queue).item] = "taken"]
       ELSE UNCHANGED <<extract_queue, stack, jobPc>>
    /\ UNCHANGED <<timeout_ms, nextReq, req, handler,
                   shutdown_request, serving, poll_timer_active, app_quit,
                   pages, page, response, sentinelDequeued,
                   signalledDuring, abandoned, api_key, request, hist>>

\* The first signal arrives in poll_queue after get_nowait() has returned a
\* job and before extract or extract_pdf is called for it: the pill is put
\* behind the rest of the queue and the main thread blocks in
\* server.shutdown() holding the job, which is begun only when shutdown()
\* has returned.
HandleSignalAfterGet ==
    /\ PollTimerReady
    /\ ~shutting_down
    /\ extract_queue # <<>>
    /\ shutting_down' = TRUE
    /\ extract_queue' = Append(QueueGet(extract_queue).rest, Sentinel)
    /\ stack' = Append(stack, QueueGet(extract_queue).item)
    /\ jobPc' = [jobPc EXCEPT ![QueueGet(extract_queue).item] = "taken"]
    /\ shutdown_request' = TRUE
    /\ mainBlocked' = TRUE
    /\ signalledDuring' = QueueGet(extract_queue).item
    /\ UNCHANGED <<timeout_ms, nextReq, req, handler, serving,
                   poll_timer_active, app_quit, pages, page, response,
                   sentinelDequeued, abandoned, lock_held, api_key, request,
                   hist>>

\* The first signal arrives while poll_queue is inside req.done.set(), which
\* holds the lock of the Event: the pill is put and the main thread blocks in
\* server.shutdown() with that lock held, so a handler waiting on this job
\* cannot return from done.wait() until shutdown() has returned.  The signal
\* is handled before set() has written the Event's flag, or (flagged) after
\* it has.
HandleSignalInSet(flagged) ==
    /\ ~mainBlocked
    /\ ~shutting_down
    /\ stack # <<>>
    /\ jobPc[Last(stack)] = "returned"
    /\ shutting_down' = TRUE
    /\ extract_queue' = Append(extract_queue, Sentinel)
    /\ shutdown_request' = TRUE
    /\ mainBlocked' = TRUE
    /\ lock_held' = "event"
    /\ IF flagged
       THEN /\ req' = [req EXCEPT ![Last(stack)].done = TRUE]
            /\ hist' = [hist EXCEPT ![Last(stack)].doneSets = @ + 1]
       ELSE UNCHANGED <<req, hist>>
    /\ UNCHANGED <<timeout_ms, nextReq, handler, serving,
                   poll_timer_active, app_quit, stack, jobPc, pages, page,
                   response, sentinelDequeued, signalledDuring, abandoned,
                   api_key, request>>

\* serve_forever sees __shutdown_request between two requests and leaves its
\* loop, resetting the flag on its way out; server.shutdown() returns on the
\* main thread and handle_signal with it, so a lock held around it is
\* released.
ServerStops ==
    /\ shutdown_request
    /\ serving
    /\ handler.pc = "idle"
    /\ serving' = FALSE
    /\ shutdown_request' = FALSE
    /\ mainBlocked' = FALSE
    /\ lock_held' = "none"
    /\ UNCHANGED <<timeout_ms, extract_queue, nextReq, req, handler,
                   shutting_down, poll_timer_active,
                   app_quit, stack, jobPc, pages, page, response,
                   sentinelDequeued, signalledDuring, abandoned, api_key,
                   request, hist>>


\* ------------------------------------------------------------------ _Handler
\* _ExtractRequest(url, pdf) is constructed and put on extract_queue.
Push(url, pdf) ==
    /\ nextReq <= MaxJobs
    /\ req' = [req EXCEPT ![nextReq] =
                 [url |-> url, pdf |-> pdf, result |-> None, done |-> FALSE]]
    /\ extract_queue' = Append(extract_queue, nextReq)
    /\ nextReq' = nextReq + 1
    /\ UNCHANGED hist

\* _extract_one up to req.done.wait: the handler thread puts the request and
\* becomes h, waiting on it.  While the main thread is stuck in handle_signal
\* with Queue.mutex held, extract_queue.put blocks for ever instead.
Submit(url, pdf, h) ==
    IF lock_held = "queue"
    THEN /\ handler' = [h EXCEPT !.pc = "putting"]
         /\ UNCHANGED <<extract_queue, nextReq, req, hist>>
    ELSE /\ Push(url, pdf)
         /\ handler' = h

\* (variant: the wait's return value is not looked at)
extract_one_return_always_result(r, signaled) == r.result

\* _extract_one after req.done.wait(timeout=self.timeout_s) has returned
\* signaled: None on a timed-out wait, req.result otherwise.

extract_one_return(r, signaled) ==
    IF ~signaled THEN None ELSE r.result

\* do_POST, /extract: 504 "extraction timed out", or the result's dict
ExtractResponse(result) ==
    IF result = None
    THEN [status |-> 504, body |-> [error |-> OuterTimeoutError]]
    ELSE [status |-> 200, body |-> result[1]]

\* do_POST, batch: the document appended for one URL (metadata flattened; the
\* error key is present only for a non-empty error)
BatchDocument(url, result) ==
    IF result = None
    THEN [page_content |-> "", source |-> url, error |-> OuterTimeoutError]
    ELSE IF result[1].error # ""
    THEN [page_content |-> result[1].text,
          source |-> IF result[1].url # "" THEN result[1].url ELSE url,
          title |-> result[1].title, error |-> result[1].error]
    ELSE [page_content |-> result[1].text,
          source |-> IF result[1].url # "" THEN result[1].url ELSE url,
          title |-> result[1].title]

RECURSIVE SkipBlank(_)
\* for url in urls: url = url.strip(); if not url: continue
SkipBlank(urls) ==
    IF urls = <<>> THEN <<>>
    ELSE IF Strip(Head(urls)) = "" THEN SkipBlank(Tail(urls))
    ELSE urls

NonBlank(urls) == Cardinality({i \in 1..Len(urls) : Strip(urls[i]) # ""})

\* The batch loop from its current position: the next non-blank URL is
\* submitted, or the documents are sent.  input is body["urls"], urls the
\* part of it the loop has not reached yet.
BatchLoop(input, urls, docs, headPdf) ==
    LET rest == SkipBlank(urls) IN
    IF rest = <<>>
    THEN /\ response' = Some([status |-> 200, body |-> docs])
         /\ handler' = IdleHandler
         /\ UNCHANGED <<extract_queue, nextReq, req, hist>>
    ELSE LET url == Strip(Head(rest)) IN
         /\ Submit(url, detect_pdf(url, headPdf),
                   [pc |-> "waiting", path |-> "/", req |-> nextReq,
                    waitLeft |-> WaitTicks, input |-> input,
                    urls |-> Tail(rest), documents |-> docs])
         /\ response' = None

\* The batch loop after _extract_one has returned for one URL: when
\* _is_pdf sends a HEAD request for the next non-blank URL, the handler
\* thread is inside that request before it constructs and puts the job.
NextUrl(input, urls, docs) ==
    LET rest == SkipBlank(urls) IN
    IF rest # <<>> /\ SendsHead(Strip(Head(rest)))
    THEN /\ handler' = [pc |-> "head", path |-> "/", req |-> 0,
                        waitLeft |-> -1, input |-> input, urls |-> rest,
                        documents |-> docs]
         /\ response' = None
         /\ UNCHANGED <<extract_queue, nextReq, req, hist>>
    ELSE BatchLoop(input, urls, docs, FALSE)

UnchangedMain ==
    UNCHANGED <<timeout_ms, shutdown_request, serving, shutting_down,
                mainBlocked, poll_timer_active, app_quit, stack, jobPc, pages,
                page, sentinelDequeued, signalledDuring, lock_held, api_key,
                request>>

\* (variant: a threading server accepts a request while another is handled)
Accepting_threaded == serving /\ ~shutdown_request

\* serve_forever handles one request at a time, and none once shutdown has
\* been requested.
Accepting == serving /\ ~shutdown_request /\ handler.pc = "idle"

\* A handler that has a connection and has not yet put a job or answered: it
\* is reading the request, or parsing it, or inside the HEAD request of
\* _detect_pdf for the request's first URL.
ReadingHandler == [IdleHandler EXCEPT !.pc = "reading"]

\* serve_forever takes a connection: the handler thread begins to read the
\* request.  __shutdown_request was looked at before; a signal may be
\* handled from here on, before the handler puts its job.
Connect ==
    /\ Accepting
    /\ handler' = ReadingHandler
    /\ UNCHANGED <<extract_queue, nextReq, req, hist, response, abandoned>>
    /\ UnchangedMain

\* The client closes the connection before its request is complete: the
\* handler returns without an answer.
ClientCloses ==
    /\ handler.pc = "reading"
    /\ handler' = IdleHandler
    /\ UNCHANGED <<extract_queue, nextReq, req, hist, response, abandoned>>
    /\ UnchangedMain

PdfParams == {"absent", "true", "false"}

\* POST /extract with {"url": u, "pdf": pdfParam}
PostExtract(u, pdfParam, headPdf) ==
    /\ handler.pc = "reading"
    /\ LET url == Strip(u) IN
       IF url = ""
       THEN /\ response' = Some([status |-> 400, body |-> [error |-> "url is required"]])
            /\ handler' = IdleHandler
            /\ UNCHANGED <<extract_queue, nextReq, req, hist>>
       ELSE /\ Submit(url, IF pdfParam = "absent" THEN detect_pdf(url, headPdf)
                           ELSE pdfParam = "true",
                      [pc |-> "waiting", path |-> "/extract", req |-> nextReq,
                       waitLeft |-> WaitTicks, input |-> <<>>,
                       urls |-> <<>>, documents |-> <<>>])
            /\ response' = None
    /\ UNCHANGED abandoned
    /\ UnchangedMain

BatchInputs == UNION {[1..n -> Urls] : n \in 1..MaxBatch}

\* POST / with {"urls": urls}
PostBatch(urls, headPdf) ==
    /\ handler.pc = "reading"
    /\ NonBlank(urls) <= MaxJobs - nextReq + 1
    /\ BatchLoop(urls, urls, <<>>, headPdf)
    /\ UNCHANGED abandoned
    /\ UnchangedMain

\* (variant: on a timed-out wait the handler thread fills in the job's result)
AfterExtractOne_writes_result(signaled) ==
    LET j == handler.req
        ret == extract_one_return(req[j], signaled)
    IN IF handler.path = "/extract"
       THEN /\ response' = Some(ExtractResponse(ret))
            /\ handler' = IdleHandler
            /\ req' = IF signaled THEN req
                      ELSE [req EXCEPT ![j].result =
                              Some(ExtractionResult(req[j].url, "", "", "",
                                                    OuterTimeoutError))]
            /\ UNCHANGED <<extract_queue, nextReq, hist>>
       ELSE NextUrl(handler.input, handler.urls,
                    Append(handler.documents, BatchDocument(req[j].url, ret)))

\* (variant: a handler that gives up takes its job off the queue)
AfterExtractOne_cancels(signaled) ==
    LET j == handler.req
        ret == extract_one_return(req[j], signaled)
    IN IF handler.path = "/extract"
       THEN /\ response' = Some(ExtractResponse(ret))
            /\ handler' = IdleHandler
            /\ extract_queue' = IF signaled THEN extract_queue
                                ELSE Remove(extract_queue, j)
            /\ UNCHANGED <<nextReq, req, hist>>
       ELSE NextUrl(handler.input, handler.urls,
                    Append(handler.documents, BatchDocument(req[j].url, ret)))

\* (variant: the batch loop ends at the first URL whose wait timed out)
AfterExtractOne_breaks_on_timeout(signaled) ==
    LET j == handler.req
        ret == extract_one_return(req[j], signaled)
    IN IF handler.path = "/extract"
       THEN /\ response' = Some(ExtractResponse(ret))
            /\ handler' = IdleHandler
            /\ UNCHANGED <<extract_queue, nextReq, req, hist>>
       ELSE NextUrl(handler.input,
                    IF signaled THEN handler.urls ELSE <<>>,
                    Append(handler.documents, BatchDocument(req[j].url, ret)))

\* The handler after _extract_one has returned for its current request.
AfterExtractOne(signaled) ==
    LET j == handler.req
        ret == extract_one_return(req[j], signaled)
    IN IF handler.path = "/extract"
       THEN /\ response' = Some(ExtractResponse(ret))
            /\ handler' = IdleHandler
            /\ UNCHANGED <<extract_queue, nextReq, req, hist>>
       ELSE NextUrl(handler.input, handler.urls,
                    Append(handler.documents, BatchDocument(req[j].url, ret)))

\* done.wait can take the lock of job j's Event again, as it must before it
\* returns.
EventLockFree(j) == ~(lock_held = "event" /\ Last(stack) = j)

\* The HEAD request for the batch's next URL has returned (headPdf: with the
\* Content-Type of a PDF): the job is constructed and put.
HeadReturns(headPdf) ==
    /\ handler.pc = "head"
    /\ BatchLoop(handler.input, handler.urls, handler.documents, headPdf)
    /\ UNCHANGED abandoned
    /\ UnchangedMain

\* req.done.wait returns True: done was set within the bound.
WaitReturns ==
    /\ handler.pc = "waiting"
    /\ EventLockFree(handler.req)
    /\ req[handler.req].done
    /\ AfterExtractOne(TRUE)
    /\ UNCHANGED abandoned
    /\ UnchangedMain

\* (variant: done.wait() without a timeout never gives up)
WaitTimesOut_unbounded ==
    /\ FALSE
    /\ UNCHANGED vars

\* req.done.wait returns False: timeout_s seconds passed with done unset.
WaitTimesOut ==
    /\ handler.pc = "waiting"
    /\ EventLockFree(handler.req)
    /\ handler.waitLeft = 0
    /\ ~req[handler.req].done
    /\ AfterExtractOne(FALSE)
    /\ abandoned' = abandoned \cup {handler.req}
    /\ UnchangedMain

\* ---------------------------------------------------------------------- Next
Next ==
    \/ PollQueueEmpty
    \/ PollQueueSentinel
    \/ PollQueuePage
    \/ PollQueuePdf
    \/ \E how \in PdfOutcomes : PdfReturns(how)
    \/ ExtractReturns
    \/ SetDone
    \/ \E j \in Jobs, ok \in BOOLEAN : LoadFinished(j, ok)
    \/ \E j \in Jobs : StabilityTimerFires(j)
    \/ \E j \in Jobs : TimeoutTimerFires(j)
    \/ \E j \in Jobs : TextReady(j)
    \/ \E j \in Jobs : HtmlReady(j)
    \/ Tick
    \/ HandleSignal
    \/ \E popped \in BOOLEAN : HandleSignalInGet(popped)
    \/ HandleSignalAfterGet
    \/ \E flagged \in BOOLEAN : HandleSignalInSet(flagged)
    \/ ServerStops
    \/ Connect
    \/ ClientCloses
    \/ \E u \in Urls, pdfParam \in PdfParams, headPdf \in BOOLEAN :
          PostExtract(u, pdfParam, headPdf)
    \/ \E urls \in BatchInputs, headPdf \in BOOLEAN : PostBatch(urls, headPdf)
    \/ \E headPdf \in BOOLEAN : HeadReturns(headPdf)
    \/ WaitReturns
    \/ WaitTimesOut

Spec == Init /\ [][Next]_vars

\* serve(timeout_ms=...) with any timeout from 0 to MaxTimeoutMs ms: a
\* request is accepted (the handler's wait bound is computed from timeout_s),
\* its page is started (the load-timeout timer gets timeout_ms) and time
\* passes.
ServeInit ==
    /\ timeout_ms \in 0..MaxTimeoutMs
    /\ extract_queue = <<>>
    /\ nextReq = 1
    /\ req = [j \in Jobs |-> NewRequest]
    /\ handler = IdleHandler
    /\ shutdown_request = FALSE
    /\ serving = TRUE
    /\ shutting_down = FALSE
    /\ mainBlocked = FALSE
    /\ poll_timer_active = TRUE
    /\ app_quit = FALSE
    /\ stack = <<>>
    /\ jobPc = [j \in Jobs |-> "new"]
    /\ pages = <<>>
    /\ page = [j \in Jobs |-> NewPage]
    /\ response = None
    /\ sentinelDequeued = FALSE
    /\ signalledDuring = 0
    /\ abandoned = {}
    /\ lock_held = "none"
    /\ api_key = <<>>
    /\ request = None
    /\ hist = [j \in Jobs |-> NewHist]

ServeNext ==
    \/ Connect
    \/ \E u \in Urls, pdfParam \in PdfParams, headPdf \in BOOLEAN :
          PostExtract(u, pdfParam, headPdf)
    \/ PollQueuePage
    \/ Tick

ServeSpec == ServeInit /\ [][ServeNext]_vars

\* Batch requests whose lists mix blank URLs with two different non-blank
\* ones, of up to MaxWideBatch entries, served by the whole program.
BatchUrls == Urls \cup {PdfPathUrl}
WideBatchInputs == UNION {[1..n -> BatchUrls] : n \in 1..MaxWideBatch}

BatchNext ==
    \/ PollQueueEmpty
    \/ PollQueueSentinel
    \/ PollQueuePage
    \/ PollQueuePdf
    \/ \E how \in PdfOutcomes : PdfReturns(how)
    \/ ExtractReturns
    \/ SetDone
    \/ \E j \in Jobs, ok \in BOOLEAN : LoadFinished(j, ok)
    \/ \E j \in Jobs : StabilityTimerFires(j)
    \/ \E j \in Jobs : TimeoutTimerFires(j)
    \/ \E j \in Jobs : TextReady(j)
    \/ \E j \in Jobs : HtmlReady(j)
    \/ Tick
    \/ HandleSignal
    \/ \E popped \in BOOLEAN : HandleSignalInGet(popped)
    \/ HandleSignalAfterGet
    \/ \E flagged \in BOOLEAN : HandleSignalInSet(flagged)
    \/ ServerStops
    \/ Connect
    \/ ClientCloses
    \/ \E urls \in WideBatchInputs, headPdf \in BOOLEAN : PostBatch(urls, headPdf)
    \/ \E headPdf \in BOOLEAN : HeadReturns(headPdf)
    \/ WaitReturns
    \/ WaitTimesOut

\* serve(timeout_ms=BatchTimeoutMs)
BatchInit ==
    /\ timeout_ms = BatchTimeoutMs
    /\ extract_queue = <<>>
    /\ nextReq = 1
    /\ req = [j \in Jobs |-> NewRequest]
    /\ handler = IdleHandler
    /\ shutdown_request = FALSE
    /\ serving = TRUE
    /\ shutting_down = FALSE
    /\ mainBlocked = FALSE
    /\ poll_timer_active = TRUE
    /\ app_quit = FALSE
    /\ stack = <<>>
    /\ jobPc = [j \in Jobs |-> "new"]
    /\ pages = <<>>
    /\ page = [j \in Jobs |-> NewPage]
    /\ response = None
    /\ sentinelDequeued = FALSE
    /\ signalledDuring = 0
    /\ abandoned = {}
    /\ lock_held = "none"
    /\ api_key = <<>>
    /\ request = None
    /\ hist = [j \in Jobs |-> NewHist]

BatchSpec == BatchInit /\ [][BatchNext]_vars

\* ------------------------------------------------------- do_POST as a whole
\* Header values and the API key are sequences of characters.
BearerPrefix == <<"B", "e", "a", "r", "e", "r", " ">>
Key == <<"k">>
ApiKeys == {<<>>, Key}

\* Authorization header values: absent (headers.get's default ""), the key
\* as bearer token, the same with blanks around the token, another token, no
\* token, the bare key, and a lower-case scheme.
AuthHeaders ==
    {<<>>,
     BearerPrefix \o Key,
     BearerPrefix \o <<" ">> \o Key \o <<" ">>,
     BearerPrefix \o <<"x">>,
     BearerPrefix,
     Key,
     <<"b", "e", "a", "r", "e", "r", " ">> \o Key}

\* str.startswith
StartsWith(str, prefix) ==
    Len(str) >= Len(prefix) /\ SubSeq(str, 1, Len(prefix)) = prefix

\* str[n:]
From(str, n) == SubSeq(str, n + 1, Len(str))

RECURSIVE lstrip(_)
lstrip(str) ==
    IF str # <<>> /\ Head(str) = " " THEN lstrip(Tail(str)) ELSE str

RECURSIVE rstrip(_)
rstrip(str) ==
    IF str # <<>> /\ str[Len(str)] = " "
    THEN rstrip(SubSeq(str, 1, Len(str) - 1))
    ELSE str

\* str.strip
strip(str) == rstrip(lstrip(str))

\* (variant: any bearer token is accepted)
check_auth_any_bearer(key, auth) ==
    IF key = <<>> THEN TRUE
    ELSE StartsWith(auth, BearerPrefix)

\* _Handler._check_auth: TRUE when the request may proceed
check_auth(key, auth) ==
    IF key = <<>> THEN TRUE
    ELSE StartsWith(auth, BearerPrefix) /\ strip(From(auth, 7)) = key

Paths == {"/", "", "/extract", "/health", "/other"}

\* The "urls" member of a JSON body: absent, not a list, or a list.
UrlsMembers ==
    {[kind |-> "absent", list |-> <<>>], [kind |-> "nonlist", list |-> <<>>]}
    \cup {[kind |-> "list", list |-> l] :
             l \in {<<>>, <<BlankUrl>>, <<HttpUrl>>, <<HttpUrl, BlankUrl>>,
                    <<HttpUrl, HttpUrl>>}}

\* The "url" member of a JSON body: absent, a string, or a number.
UrlMembers ==
    {[kind |-> "absent", value |-> ""], [kind |-> "number", value |-> ""]}
    \cup {[kind |-> "string", value |-> u] : u \in Urls}

\* Content-Length header values: absent (None), "0", a positive length, and
\* one that is not an integer.
ContentLengths == {None, Some("0"), Some("12"), Some("abc")}

\* int(self.headers.get("Content-Length", 0)): None for a ValueError
content_length(header) ==
    IF header = None THEN Some(0)
    ELSE IF header[1] = "0" THEN Some(0)
    ELSE IF header[1] = "12" THEN Some(12)
    ELSE None

\* What the body's bytes are: a JSON object, the JSON values null, [] and 5,
\* text that is not JSON, and bytes that are not UTF-8.
JsonKinds == {"object", "null", "array", "number", "malformed", "not_utf8"}

NoMembers ==
    [url : {[kind |-> "absent", value |-> ""]},
     urls : {[kind |-> "absent", list |-> <<>>]}, pdf : {"absent"}]

\* The members of a JSON object: every url (with and without pdf) without
\* urls, and every urls without a url and next to a good one.
ObjectMembers ==
    [url : UrlMembers, urls : {[kind |-> "absent", list |-> <<>>]},
     pdf : {"absent", "true"}]
    \cup
    [url : {[kind |-> "absent", value |-> ""],
            [kind |-> "string", value |-> HttpUrl]},
     urls : UrlsMembers, pdf : {"absent"}]

\* Requests: GET requests, and POST requests with each Content-Length and
\* kind of body; a JSON object has the members above.
Requests ==
    {[method |-> "GET", auth |-> a, path |-> p, length |-> None,
      json |-> "malformed", members |-> m] :
        a \in AuthHeaders, p \in Paths, m \in NoMembers}
    \cup
    {[method |-> "POST", auth |-> a, path |-> p, length |-> l,
      json |-> "malformed", members |-> m] :
        a \in AuthHeaders, p \in Paths, l \in ContentLengths \ {Some("12")},
        m \in NoMembers}
    \cup
    {[method |-> "POST", auth |-> a, path |-> p, length |-> Some("12"),
      json |-> k, members |-> m] :
        a \in AuthHeaders, p \in Paths, k \in JsonKinds \ {"object"},
        m \in NoMembers}
    \cup
    {[method |-> "POST", auth |-> a, path |-> p, length |-> Some("12"),
      json |-> "object", members |-> m] :
        a \in AuthHeaders, p \in Paths,
        m \in ObjectMembers}

\* _send_json({"error": msg}, status)
ErrorResponse(status, msg) == [status |-> status, body |-> [error |-> msg]]

\* _Handler._read_json_body: "error" with the response it sends, "raised"
\* when int() or json.loads raises something it does not catch, "none" when
\* json.loads returns None (nothing is sent), "body" when it returns a value
\* that do_POST goes on with.
read_json_body(r) ==
    IF content_length(r.length) = None
    THEN [outcome |-> "raised", response |-> None]
    ELSE IF content_length(r.length)[1] = 0
    THEN [outcome |-> "error", response |-> Some(ErrorResponse(400, "empty body"))]
    ELSE IF r.json = "malformed"
    THEN [outcome |-> "error", response |-> Some(ErrorResponse(400, "invalid JSON"))]
    ELSE IF r.json = "not_utf8"
    THEN [outcome |-> "raised", response |-> None]
    ELSE IF r.json = "null"
    THEN [outcome |-> "none", response |-> None]
    ELSE [outcome |-> "body", response |-> None]

\* The handler returns after sending a response.
Rejects(resp) ==
    /\ response' = Some(resp)
    /\ handler' = IdleHandler
    /\ UNCHANGED <<extract_queue, nextReq, req, hist>>

\* The handler returns without sending anything: do_POST returned on a None
\* body, or an exception ended it and the connection was closed.
NoAnswer ==
    /\ response' = None
    /\ handler' = IdleHandler
    /\ UNCHANGED <<extract_queue, nextReq, req, hist>>

\* "urls" in body raises TypeError for a number; [] has no member.
HasUrls(r) == r.json = "object" /\ r.members.urls.kind # "absent"

\* _Handler.do_POST for the request the client sends
DoPost(headPdf) ==
    /\ handler.pc = "reading"
    /\ request # None
    /\ request[1].method = "POST"
    /\ LET r == request[1]
           m == r.members
       IN
       IF ~check_auth(api_key, r.auth)
       THEN Rejects(ErrorResponse(401, "unauthorized"))
       ELSE IF read_json_body(r).outcome = "error"
       THEN Rejects(read_json_body(r).response[1])
       ELSE IF read_json_body(r).outcome \in {"raised", "none"}
       THEN NoAnswer
       ELSE IF r.path \in {"/", ""} /\ r.json = "number"
       THEN NoAnswer
       ELSE IF r.path \in {"/", ""} /\ HasUrls(r)
       THEN IF m.urls.kind # "list" \/ m.urls.list = <<>>
            THEN Rejects(ErrorResponse(400, "urls must be a non-empty array"))
            ELSE /\ NonBlank(m.urls.list) <= MaxJobs - nextReq + 1
                 /\ BatchLoop(m.urls.list, m.urls.list, <<>>, headPdf)
       ELSE IF r.path = "/extract"
       THEN IF r.json # "object" \/ m.url.kind = "number"
            THEN NoAnswer
            ELSE LET url == Strip(m.url.value) IN
                 IF url = ""
                 THEN Rejects(ErrorResponse(400, "url is required"))
                 ELSE /\ Submit(url,
                                IF m.pdf = "absent" THEN detect_pdf(url, headPdf)
                                ELSE m.pdf = "true",
                                [pc |-> "waiting", path |-> "/extract",
                                 req |-> nextReq, waitLeft |-> WaitTicks,
                                 input |-> <<>>, urls |-> <<>>,
                                 documents |-> <<>>])
                      /\ response' = None
       ELSE Rejects(ErrorResponse(404, "not found"))
    /\ UNCHANGED abandoned
    /\ UnchangedMain

\* _Handler.do_GET for the request the client sends
DoGet ==
    /\ handler.pc = "reading"
    /\ request # None
    /\ request[1].method = "GET"
    /\ IF request[1].path = "/health"
       THEN Rejects([status |-> 200, body |-> [status |-> "ok"]])
       ELSE IF ~check_auth(api_key, request[1].auth)
       THEN Rejects(ErrorResponse(401, "unauthorized"))
       ELSE Rejects(ErrorResponse(404, "not found"))
    /\ UNCHANGED abandoned
    /\ UnchangedMain

\* serve(api_key=...) with or without a key, and a client that sends one
\* request of Requests over and over; the dispatcher runs the jobs of the
\* accepted ones (pages that never report loadFinished), and a signal may
\* shut the server down.
DoPostInit ==
    /\ timeout_ms = BatchTimeoutMs
    /\ extract_queue = <<>>
    /\ nextReq = 1
    /\ req = [j \in Jobs |-> NewRequest]
    /\ handler = IdleHandler
    /\ shutdown_request = FALSE
    /\ serving = TRUE
    /\ shutting_down = FALSE
    /\ mainBlocked = FALSE
    /\ poll_timer_active = TRUE
    /\ app_quit = FALSE
    /\ stack = <<>>
    /\ jobPc = [j \in Jobs |-> "new"]
    /\ pages = <<>>
    /\ page = [j \in Jobs |-> NewPage]
    /\ response = None
    /\ sentinelDequeued = FALSE
    /\ signalledDuring = 0
    /\ abandoned = {}
    /\ lock_held = "none"
    /\ api_key \in ApiKeys
    /\ request \in {Some(r) : r \in Requests}
    /\ hist = [j \in Jobs |-> NewHist]

DoPostNext ==
    \/ Connect
    \/ \E headPdf \in BOOLEAN : DoPost(headPdf)
    \/ DoGet
    \/ PollQueueSentinel
    \/ PollQueuePage
    \/ PollQueuePdf
    \/ \E how \in PdfOutcomes : PdfReturns(how)
    \/ ExtractReturns
    \/ SetDone
    \/ \E j \in Jobs : TimeoutTimerFires(j)
    \/ \E j \in Jobs : TextReady(j)
    \/ \E j \in Jobs : HtmlReady(j)
    \/ Tick
    \/ HandleSignal
    \/ \E popped \in BOOLEAN : HandleSignalInGet(popped)
    \/ HandleSignalAfterGet
    \/ \E flagged \in BOOLEAN : HandleSignalInSet(flagged)
    \/ ServerStops
    \/ \E headPdf \in BOOLEAN : HeadReturns(headPdf)
    \/ WaitReturns
    \/ WaitTimesOut

DoPostSpec == DoPostInit /\ [][DoPostNext]_vars

TypeOK ==
    /\ timeout_ms \in TimeoutMsChoices
    /\ nextReq \in 1..(MaxJobs + 1)
    /\ \A i \in 1..Len(extract_queue) : extract_queue[i] \in Jobs \cup {Sentinel}
    /\ \A j \in Jobs :
          jobPc[j] \in {"new", "taken", "loop", "pdf", "returned", "finished"}
    /\ \A i \in 1..Len(stack) : stack[i] \in Jobs


\* ===================================================================== claims
Started(j) == jobPc[j] # "new"
InProgress(j) == jobPc[j] \in {"taken", "loop", "pdf", "returned"}

\* C1: a job's done event is set at most once and only after its result was
\* assigned by poll_queue; a _WebPage emits extraction_done at most once
\* (on_done appends to result_holder on every emission).
C1_CompletionAtMostOnce ==
    \A j \in Jobs :
        /\ hist[j].doneSets <= 1
        /\ hist[j].resultSets <= 1
        /\ req[j].done =>
              (req[j].result # None /\ jobPc[j] \in {"returned", "finished"})
        /\ page[j].result_holder <= 1

\* A page that has emitted once although two toHtml requests were made.
C1_Witness ==
    \E j \in Jobs :
        page[j].result_holder = 1 /\ hist[j].htmlReqs >= 2 /\ page[j].htmlPending = 0

\* C2: requests are constructed in put order (ids ascend); a later job is
\* started only when every earlier one is done, and at most one poll_queue
\* invocation is in progress.
C2_FifoOneAtATime ==
    /\ Len(stack) <= 1
    /\ Cardinality({j \in Jobs : InProgress(j)}) <= 1
    /\ \A j1, j2 \in Jobs : (j1 < j2 /\ Started(j2)) => req[j1].done

\* The second job is in its event loop after the first was abandoned by its
\* handler and finished later.
C2_Witness ==
    \E j1, j2 \in Jobs :
        /\ j1 < j2
        /\ jobPc[j2] = "loop"
        /\ req[j1].done

\* C3 (as claimed): a page whose load-timeout fired before any loadFinished
\* signal finishes with the timeout error.
C3_TimeoutErrorKept ==
    \A j \in Jobs :
        (page[j].settled /\ hist[j].tmoBeforeLoad)
            => page[j].result.error = TimedOutError

\* C4 (as claimed): toPlainText and toHtml are each requested at most once per
\* page.
C4_ExtractionStartedOnce ==
    \A j \in Jobs : hist[j].textReqs <= 1 /\ hist[j].htmlReqs <= 1


\* The handler's _extract_one call returns in this step.
HandlerReturned ==
    handler.pc = "waiting" /\ (handler'.pc # "waiting" \/ handler'.req # handler.req)

C6_Step ==
    HandlerReturned =>
        LET j == handler.req
            signaled == req[j].done
            timedOutDoc == [page_content |-> "", source |-> req[j].url,
                            error |-> OuterTimeoutError]
            docs == IF handler'.pc \in {"head", "waiting", "putting"}
                    THEN handler'.documents
                    ELSE response'[1].body
        IN IF handler.path = "/extract"
           THEN /\ response' # None
                /\ (~signaled) <=> (response'[1].status = 504)
                /\ (~signaled) => response'[1].body = [error |-> OuterTimeoutError]
                /\ signaled => /\ response'[1].status = 200
                               /\ response'[1].body = req[j].result[1]
           ELSE /\ Len(docs) = Len(handler.documents) + 1
                /\ (~signaled) <=> (Last(docs) = timedOutDoc)
                /\ signaled => /\ "title" \in DOMAIN Last(docs)
                               /\ Last(docs).page_content = req[j].result[1].text
                               /\ Last(docs).title = req[j].result[1].title

\* C6: whenever _extract_one returns, the handler reports "extraction timed
\* out" (504 on /extract, an error document in a batch) exactly when done was
\* not set within the wait bound, and otherwise reports that job's own result.
C6_OuterTimeoutDistinct == [][C6_Step]_vars

\* The handler gave up on a job whose result was already assigned but whose
\* done event was not yet set, and answered 504.
C6_Witness ==
    /\ response # None
    /\ response[1].status = 504
    /\ handler.pc = "idle"
    /\ \E j \in Jobs : jobPc[j] = "returned" /\ req[j].result # None /\ ~req[j].done

\* C7: the event loop is quit only with no job in progress; the job that was
\* in progress when shutdown began is done by then, and a page job's result is
\* always the one its page emitted, never the "no result received" result.
C7_ShutdownBetweenJobs ==
    /\ app_quit => (stack = <<>> /\ \A j \in Jobs : ~InProgress(j))
    /\ \A j \in Jobs : (signalledDuring = j /\ app_quit) => req[j].done
    /\ \A j \in Jobs :
          (req[j].result # None /\ ~req[j].pdf)
              => req[j].result[1].error # NoResultError

\* A page job was in its event loop when the signal was handled, finished
\* with the page's own result, and the loop has exited.
C7_Witness ==
    \E j \in Jobs :
        /\ signalledDuring = j
        /\ ~req[j].pdf
        /\ req[j].done
        /\ req[j].result[1].html = EngineHtml
        /\ app_quit

\* C8: polling has stopped, and the event loop has been quit, exactly when
\* the poison pill has been dequeued; no job outcome stops it.
C8_StopsOnlyOnSentinel ==
    /\ poll_timer_active <=> ~sentinelDequeued
    /\ app_quit <=> sentinelDequeued
    /\ \A j \in Jobs : (jobPc[j] = "finished" /\ ~sentinelDequeued) => poll_timer_active

\* A PDF job ended with a caught exception and a later job was started.
C8_Witness ==
    \E j1, j2 \in Jobs :
        /\ j1 < j2
        /\ req[j1].done
        /\ req[j1].result[1].error = PdfExceptionError
        /\ Started(j2)

\* C9: once the poison pill has been dequeued nothing is dequeued or started
\* and no request's result or done event changes.
C9_NothingAfterSentinel ==
    [][sentinelDequeued => UNCHANGED <<extract_queue, req, jobPc, stack, page>>]_vars

\* A job is still queued behind the dequeued poison pill.
C9_Witness ==
    /\ sentinelDequeued
    /\ \E i \in 1..Len(extract_queue) :
          extract_queue[i] \in Jobs /\ jobPc[extract_queue[i]] = "new"

\* C10: no call of _extract_content other than the load-timeout's happens
\* sooner than the settle interval after the latest loadFinished signal.
C10_SettleDelay ==
    \A j \in Jobs : ~hist[j].earlyExtract

\* Extraction was started by the settle timer (the load-timeout timer is still
\* running) after repeated loadFinished signals.
C10_Witness ==
    \E j \in Jobs :
        /\ page[j].alive
        /\ hist[j].textReqs >= 1
        /\ hist[j].loads >= 2
        /\ page[j].timeout > 0


\* C11 (as claimed): with Done read as "the completion event is set", a job's
\* result is non-null exactly when its done event is set.
C11_ResultIffDone ==
    \A j \in Jobs : (req[j].result # None) <=> req[j].done

\* C11 (amended): done is set once poll_queue has finished the job, and only
\* by poll_queue's done.set(), after the result was assigned; the result is
\* non-null exactly from the assignment in poll_queue on, which precedes
\* done.set(); a handler whose wait finds done set reads a non-null result.
C11_ResultBeforeDone ==
    /\ \A j \in Jobs :
          /\ jobPc[j] = "finished" => req[j].done
          /\ req[j].done => jobPc[j] \in {"returned", "finished"}
          /\ (req[j].result # None) <=> (jobPc[j] \in {"returned", "finished"})
          /\ req[j].done => req[j].result # None
    /\ (handler.pc = "waiting" /\ req[handler.req].done)
          => extract_one_return(req[handler.req], TRUE) # None

\* poll_queue has assigned the result of the job its handler is waiting for
\* and has not yet set done.
C11_Witness ==
    /\ handler.pc = "waiting"
    /\ jobPc[handler.req] = "returned"
    /\ req[handler.req].result # None
    /\ ~req[handler.req].done

\* A step of the server thread: a request is accepted or answered, or
\* _extract_one returns.
HandlerStep ==
    \/ handler'.pc # handler.pc
    \/ handler'.req # handler.req
    \/ response' # response
    \/ nextReq' # nextReq

\* A step that drives the engine or completes a job: a page is created,
\* deleted or runs a callback, a job is dequeued, extract or extract_pdf
\* returns, a result is assigned or done is set.
EngineStep ==
    \/ jobPc' # jobPc
    \/ stack' # stack
    \/ pages' # pages
    \/ \E j \in Jobs :
          \/ req'[j].result # req[j].result
          \/ req'[j].done # req[j].done
          \/ page'[j].alive # page[j].alive
          \/ page'[j].settled # page[j].settled
          \/ page'[j].load_ok # page[j].load_ok
          \/ page'[j].result # page[j].result
          \/ page'[j].textPending # page[j].textPending
          \/ page'[j].htmlPending # page[j].htmlPending
          \/ page'[j].result_holder # page[j].result_holder
          \/ page'[j].stability > page[j].stability

RECURSIVE IsPrefix(_, _)
IsPrefix(s, t) ==
    IF s = <<>> THEN TRUE
    ELSE IF t = <<>> THEN FALSE
    ELSE Head(s) = Head(t) /\ IsPrefix(Tail(s), Tail(t))

C12_Step ==
    /\ EngineStep =>
          /\ ~mainBlocked
          /\ ~HandlerStep
          /\ Len(stack) <= 1 /\ Len(stack') <= 1
    /\ HandlerStep =>
          /\ ~EngineStep
          /\ page' = page
          /\ IsPrefix(extract_queue, extract_queue')
          /\ \A i \in (Len(extract_queue) + 1)..Len(extract_queue') :
                extract_queue'[i] = nextReq /\ nextReq' = nextReq + 1
          /\ \A j \in Jobs :
                req'[j] # req[j] =>
                    /\ j = nextReq
                    /\ req'[j].result = None
                    /\ ~req'[j].done

\* C12: every step that drives the engine (poll_queue dequeuing, extract,
\* extract_pdf, the page callbacks) or that assigns a job's result or sets its
\* done event is taken by the main thread while it is not blocked, with at
\* most one poll_queue invocation in progress; a step of the server thread
\* only constructs a request and appends it to the queue, or returns from its
\* wait, and leaves every result, every done event and every page unchanged.
C12_SingleDispatcher == [][C12_Step]_vars

\* The handler gave up on a job and answered 504 while the dispatcher is
\* still running that job's extraction and its result is unassigned.
C12_Witness ==
    /\ response # None
    /\ response[1].status = 504
    /\ handler.pc = "idle"
    /\ \E j \in Jobs :
          /\ jobPc[j] = "loop"
          /\ page[j].textPending > 0
          /\ req[j].result = None

\* The load-timeout timer of page j fires in this step (_finish also stops
\* the timer, but sets _settled).
TimeoutFiresStep(j) ==
    /\ page[j].alive /\ page'[j].alive
    /\ page[j].timeout = 0 /\ page'[j].timeout = -1
    /\ ~page'[j].settled

\* The settle timer of page j fires in this step (_on_timeout and _finish also
\* stop it; the first changes the load-timeout timer, the second sets
\* _settled).
StabilityFiresStep(j) ==
    /\ page[j].alive /\ page'[j].alive
    /\ page[j].stability = 0 /\ page'[j].stability = -1
    /\ page'[j].timeout = page[j].timeout
    /\ ~page'[j].settled

\* The engine emits loadFinished for page j in this step.
LoadFinishedStep(j) ==
    page[j].alive /\ page'[j].alive /\ hist'[j].loads = hist[j].loads + 1

\* C13 (as claimed): when the load-timeout fires on a page whose extraction
\* the settle timer has already started after a successful load (toPlainText
\* requested, no error), the result is left as it is.
C13_LateTimeoutIgnored ==
    [][\A j \in Jobs :
         (TimeoutFiresStep(j) /\ hist[j].textReqs >= 1 /\ page[j].load_ok
             /\ page[j].result.error = "")
           => page'[j].result = page[j].result]_vars

\* C14 (as claimed): a page that finishes without its load-timeout having
\* fired (the timer is still pending at the finishing callback) has the
\* load-failure error exactly when no loadFinished(True) was received, and
\* no error otherwise.
C14_FailureIffNoSuccess ==
    [][\A j \in Jobs :
         (page[j].alive /\ ~page[j].settled /\ page'[j].settled
             /\ page[j].timeout >= 0)
           => page'[j].result.error =
                 IF page'[j].load_ok THEN "" ELSE LoadFailedError]_vars

\* C14 (amended): a loadFinished signal, whatever its argument, changes
\* neither the result nor _settled, requests nothing from the engine and
\* emits nothing; on a page not yet finished it (re)starts the settle timer.
\* When the settle timer starts a page's first extraction, the error it
\* leaves is the load-failure error exactly when no loadFinished(True) had
\* been received by then, and empty otherwise; a loadFinished(True) received
\* later does not clear it.
C14_FailureAtExtraction ==
    [][\A j \in Jobs :
         /\ LoadFinishedStep(j) =>
               /\ page'[j].result = page[j].result
               /\ page'[j].settled = page[j].settled
               /\ page'[j].textPending = page[j].textPending
               /\ page'[j].htmlPending = page[j].htmlPending
               /\ page'[j].result_holder = page[j].result_holder
               /\ page'[j].loopQuit = page[j].loopQuit
               /\ ~page[j].settled => page'[j].stability = StabilityTicks
         /\ (StabilityFiresStep(j) /\ hist[j].textReqs = 0) =>
               /\ hist'[j].textReqs = 1
               /\ page'[j].result.error =
                     IF page[j].load_ok THEN "" ELSE LoadFailedError
         /\ (LoadFinishedStep(j) /\ page[j].result.error = LoadFailedError) =>
               page'[j].result.error = LoadFailedError]_vars

\* The settle timer started extraction after loadFinished(False) only: the
\* load-timeout timer is still running and the error is the load-failure one.
C14_Witness ==
    \E j \in Jobs :
        /\ page[j].alive
        /\ hist[j].textReqs = 1
        /\ hist[j].loads >= 1
        /\ ~page[j].load_ok
        /\ page[j].timeout > 0
        /\ page[j].result.error = LoadFailedError

\* C15: once a page has finished (_settled is set, extraction_done was
\* emitted), no later step while the page exists changes its result, clears
\* _settled or emits extraction_done again.
C15_WriteOnceAfterDone ==
    [][\A j \in Jobs :
         ((page[j].settled \/ page[j].result_holder > 0) /\ page'[j].alive)
           => /\ page'[j].result = page[j].result
              /\ page'[j].settled
              /\ page'[j].result_holder = page[j].result_holder]_vars

\* A finished page that has emitted once although its extraction ran twice:
\* the second toHtml answer arrived after _finish and was not honoured.
C15_Witness ==
    \E j \in Jobs :
        /\ page[j].settled
        /\ page[j].result_holder = 1
        /\ hist[j].textReqs >= 2
        /\ page[j].textPending = 0
        /\ hist[j].htmlReqs >= 2
        /\ page[j].htmlPending = 0
        /\ hist[j].loads >= 1

\* C16: for every configured timeout_ms from 0 up, the handler's wait bound
\* of timeout_ms // 1000 + 10 seconds is strictly longer than the page's
\* load-timeout of timeout_ms milliseconds; the wait a handler begins with
\* and the interval a page's load-timeout timer is started with compare the
\* same way.
C16_WaitBoundExceedsTimeout ==
    /\ timeout_s * MsPerSecond > timeout_ms
    /\ WaitTicks * TickMs > timeout_ms
    /\ \A j \in Jobs :
          (handler.pc = "waiting" /\ handler.req = j /\ handler.waitLeft = WaitTicks
              /\ page[j].alive)
            => handler.waitLeft * TickMs > timeout_ms

\* A timeout that is not a whole number of seconds (the division truncates)
\* is in use: the handler waits with its bound and the page's timer runs.
C16_Witness ==
    /\ timeout_ms % MsPerSecond = MsPerSecond - 1
    /\ handler.pc = "waiting"
    /\ handler.waitLeft < WaitTicks
    /\ page[handler.req].alive
    /\ page[handler.req].timeout = 0

\* The handler gives up on its job in this step: its wait timed out.
GivesUpStep ==
    HandlerReturned /\ ~req[handler.req].done

\* The load-timeout of page job j has elapsed: its timer ran out (whether or
\* not the timeout was delivered yet), or the page has already finished.
LoadTimeoutElapsed(j) ==
    \/ page[j].alive /\ page[j].timeout <= 0
    \/ jobPc[j] \in {"returned", "finished"}

\* C17 (as claimed): a handler gives up on a page job only when that job's
\* load-timeout has elapsed.
C17_TimeoutBeforeGiveUp ==
    [][(GivesUpStep /\ ~req[handler.req].pdf)
          => LoadTimeoutElapsed(handler.req)]_vars

\* C17 (amended): a handler gives up only when the load-timeout has elapsed,
\* for a page job whose load the dispatcher started while the handler's
\* remaining wait was still at least timeout_ms.
C17_TimeoutBeforeGiveUpIfPrompt ==
    [][(GivesUpStep /\ ~req[handler.req].pdf /\ hist[handler.req].prompt)
          => LoadTimeoutElapsed(handler.req)]_vars

\* The handler gave up (504) on a promptly started page job whose
\* load-timeout had fired and whose extraction is still waiting for the
\* engine's answer.
C17_Witness ==
    /\ response # None
    /\ response[1].status = 504
    /\ handler.pc = "idle"
    /\ \E j \in Jobs :
          /\ j = nextReq - 1
          /\ page[j].alive
          /\ hist[j].prompt
          /\ page[j].timeout = -1
          /\ page[j].result.error = TimedOutError
          /\ ~page[j].settled

OnPageList(j) == \E i \in 1..Len(pages) : pages[i] = j

\* C18: a job has a _WebPage, and is on the extractor's page list, exactly
\* while it is a page job inside extract(); the page is deleted and taken off
\* the list before the job's result is assigned, and a finished page has
\* quit extract()'s loop so that the deletion is the next thing extract()
\* does; at most one page exists, and none when no job is in progress.
C18_PagePerJob ==
    /\ Len(pages) <= 1
    /\ Cardinality({j \in Jobs : page[j].alive}) <= 1
    /\ \A j \in Jobs :
          /\ page[j].alive <=> (jobPc[j] = "loop")
          /\ OnPageList(j) <=> (jobPc[j] = "loop")
          /\ jobPc[j] = "loop" => ~req[j].pdf
          /\ ~page[j].alive => page[j] = NewPage
          /\ page[j].settled => page[j].loopQuit
          /\ req[j].result # None => (~page[j].alive /\ ~OnPageList(j))
    /\ (\A j \in Jobs : ~InProgress(j)) => pages = <<>>

\* The second job's page is the only page: the first job's page was deleted
\* when that job finished.
C18_Witness ==
    \E j1, j2 \in Jobs :
        /\ j1 < j2
        /\ ~req[j1].pdf
        /\ jobPc[j1] = "finished"
        /\ req[j1].result[1].html = EngineHtml
        /\ pages = <<j2>>
        /\ page[j2].alive
        /\ page[j2].textPending > 0


\* ------------------------------------------------------------------ fairness
\* Time passes, Qt delivers due timers and runs poll_queue every 50 ms, the
\* engine answers every toPlainText/toHtml request, blocking calls return and
\* the server thread runs.  The engine need not emit loadFinished, and no
\* client or signal need ever arrive.
Fairness ==
    /\ WF_vars(Tick)
    /\ WF_vars(PollQueueSentinel)
    /\ WF_vars(PollQueuePage)
    /\ WF_vars(PollQueuePdf)
    /\ WF_vars(\E how \in PdfOutcomes : PdfReturns(how))
    /\ WF_vars(ExtractReturns)
    /\ WF_vars(SetDone)
    /\ WF_vars(\E j \in Jobs : StabilityTimerFires(j))
    /\ WF_vars(\E j \in Jobs : TimeoutTimerFires(j))
    /\ WF_vars(\E j \in Jobs : TextReady(j))
    /\ WF_vars(\E j \in Jobs : HtmlReady(j))
    /\ WF_vars(ServerStops)
    /\ WF_vars(\E headPdf \in BOOLEAN : HeadReturns(headPdf))
    /\ WF_vars(WaitReturns)
    /\ WF_vars(WaitTimesOut)

FairSpec == Init /\ [][Next]_vars /\ Fairness

\* Job j was dequeued, or is on the queue with the poison pill neither in
\* front of it nor already dequeued.
AheadOfSentinel(j) ==
    \/ InProgress(j)
    \/ /\ ~sentinelDequeued
       /\ \E i \in 1..Len(extract_queue) :
             /\ extract_queue[i] = j
             /\ \A k \in 1..(i - 1) : extract_queue[k] # Sentinel

\* The page of job j is loading or settling: no extraction has started.
LoadingOrSettling(j) == page[j].alive /\ hist[j].textReqs = 0

\* Job j is ahead of the poison pill and not yet completed exactly once.
Owed(j) ==
    AheadOfSentinel(j)
        /\ ~(req[j].done /\ hist[j].resultSets = 1 /\ hist[j].doneSets = 1)

\* C5 (as claimed): every job queued ahead of the poison pill is eventually done, with its
\* result assigned exactly once and done set exactly once, and no page stays
\* in Loading or Settling forever: a job that is owed its completion stays
\* owed until it is completed, a result or done event once counted is never
\* counted down, and again and again no job is owed and no page is loading or
\* settling.
C5_EveryJobCompletes ==
    /\ [][\A j \in Jobs :
            /\ Owed(j) => (Owed(j)' \/ (req[j].done /\ hist[j].resultSets = 1)')
            /\ hist[j].resultSets' >= hist[j].resultSets
            /\ hist[j].doneSets' >= hist[j].doneSets]_vars
    /\ []<>(\A j \in Jobs : ~Owed(j) /\ ~LoadingOrSettling(j))

\* A PDF job is dequeued and not yet done: poll_queue holds it, is inside
\* extract_pdf, or is between its return and the end of done.set().
PdfInFlight(j) == req[j].pdf /\ jobPc[j] \in {"taken", "pdf", "returned"}

\* C19 (as claimed): a PDF job never has a page or a timer; from its dequeuing to
\* done.set() the dispatcher does nothing else (nothing is dequeued, no other
\* job moves, no page changes); its result has the submitted URL and empty
\* html, and an error result (status not Ready, or an exception) has empty
\* text, html and title, while a result without an error is the document's
\* text and title; and the job completes whatever the outcome: again and
\* again no PDF job is in flight.
C19_PdfSynchronous ==
    /\ [](\A j \in Jobs :
            req[j].pdf =>
              /\ page[j] = NewPage
              /\ ~OnPageList(j)
              /\ jobPc[j] # "loop"
              /\ req[j].result # None =>
                    /\ req[j].result[1].url = req[j].url
                    /\ req[j].result[1].html = ""
                    /\ req[j].result[1].error \in
                          {"", PdfNotReadyError, PdfExceptionError}
                    /\ req[j].result[1].error # "" =>
                          /\ req[j].result[1].text = ""
                          /\ req[j].result[1].title = ""
                    /\ req[j].result[1].error = "" =>
                          /\ req[j].result[1].text = EngineText
                          /\ req[j].result[1].title = Basename(req[j].url)
              /\ req[j].done => req[j].result # None)
    /\ [][\A j \in Jobs :
            PdfInFlight(j) =>
              /\ jobPc'[j] \in {"taken", "pdf", "returned", "finished"}
              /\ \A k \in Jobs \ {j} : jobPc'[k] = jobPc[k]
              /\ IsPrefix(extract_queue, extract_queue')
              /\ pages' = pages
              /\ page' = page]_vars
    /\ []<>(\A j \in Jobs : ~PdfInFlight(j))

\* How often job j is on the queue.
TimesQueued(j) == Cardinality({i \in 1..Len(extract_queue) : extract_queue[i] = j})

\* C20 (as claimed): a handler that gives up leaves the queue, the job and the
\* dispatcher as they are; a job is on the queue at most once and never again
\* once dequeued, and never starts a second time; a later job is started only
\* when every earlier one is done; and a job queued ahead of the poison pill,
\* given up on or not, stays ahead of it until it is done and is eventually
\* done.
C20_NoCancelNoRetry ==
    /\ [](\A j \in Jobs :
            /\ TimesQueued(j) <= 1
            /\ Started(j) => TimesQueued(j) = 0
            /\ hist[j].resultSets <= 1
            /\ \A k \in Jobs : (j < k /\ Started(k)) => req[j].done)
    /\ [][/\ GivesUpStep =>
               /\ IsPrefix(extract_queue, extract_queue')
               /\ req'[handler.req] = req[handler.req]
               /\ jobPc' = jobPc
               /\ stack' = stack
               /\ page' = page
          /\ \A j \in Jobs :
               /\ Started(j) => Started(j)'
               /\ jobPc[j] = "finished" => jobPc'[j] = "finished"
               /\ jobPc[j] \in {"returned", "finished"} => jobPc'[j] # "loop"
               /\ AheadOfSentinel(j) => (AheadOfSentinel(j)' \/ req'[j].done)]_vars
    /\ []<>(\A j \in Jobs : ~AheadOfSentinel(j))

\* Time passes in this step: the wait of the handler counts down.
TimePasses ==
    /\ handler.pc = "waiting" /\ handler'.pc = "waiting"
    /\ handler'.req = handler.req
    /\ handler'.waitLeft < handler.waitLeft

\* The load-timeout of page j has run out and extraction has not begun.
Overdue(j) == page[j].alive /\ page[j].timeout = 0 /\ hist[j].textReqs = 0

\* C21 (as claimed): while a page exists its load-timeout timer never gains
\* time, a loadFinished signal leaves it as it is, a page whose load-timeout
\* was delivered has begun extraction, and no time passes between the
\* load-timeout running out and extraction beginning.
C21_ExtractionWithinTimeout ==
    /\ [](\A j \in Jobs :
            (page[j].alive /\ page[j].timeout = -1) => hist[j].textReqs >= 1)
    /\ [][\A j \in Jobs :
            /\ (page[j].alive /\ page'[j].alive) =>
                  page'[j].timeout <= page[j].timeout
            /\ LoadFinishedStep(j) => page'[j].timeout = page[j].timeout
            /\ Overdue(j) => ~TimePasses]_vars

\* C22 (as claimed): once a shutdown signal was handled the shutdown stays
\* begun and completes: the main thread is blocked only inside
\* server.shutdown(), while the server thread is still serving and has been
\* asked to stop, and again and again it is not blocked;
\* eventually, and from then on, serve_forever has ended, the poison pill has
\* been dequeued, polling has stopped and the event loop has been quit with
\* no job in progress.
C22_ShutdownCompletes ==
    /\ [](/\ mainBlocked => (shutting_down /\ serving /\ shutdown_request)
          /\ app_quit => (shutting_down /\ ~mainBlocked /\ ~serving))
    /\ [][/\ shutting_down => shutting_down'
          /\ app_quit => app_quit'
          /\ ~serving => ~serving']_vars
    /\ []<>(~mainBlocked)
    /\ []<>(shutting_down =>
              /\ ~serving
              /\ sentinelDequeued
              /\ ~poll_timer_active
              /\ app_quit
              /\ stack = <<>>)

\* Job j was pushed and poll_queue has not finished it: it is on the queue or
\* the engine is working on it.
Unfinished(j) == j < nextReq /\ jobPc[j] # "finished"

\* The handler is waiting on job j.
WaitedFor(j) == handler.pc = "waiting" /\ handler.req = j

\* C23: at most one pushed job that is not finished has a handler still
\* waiting on it, namely the job pushed last; every other unfinished job is
\* one whose handler's wait timed out, and a job is never both waited for
\* and given up on.
C23_OneWaitingHandler ==
    /\ Cardinality({j \in Jobs : Unfinished(j) /\ j \notin abandoned}) <= 1
    /\ \A j \in Jobs :
          /\ (Unfinished(j) /\ ~WaitedFor(j)) => j \in abandoned
          /\ WaitedFor(j) => (j = nextReq - 1 /\ j \notin abandoned)
          /\ j \in abandoned => j < nextReq

\* Two unfinished jobs: the first, given up on, is still in its event loop;
\* the second is on the queue with a handler waiting on it.
C23_Witness ==
    \E j1, j2 \in Jobs :
        /\ j1 < j2
        /\ jobPc[j1] = "loop"
        /\ j1 \in abandoned
        /\ jobPc[j2] = "new"
        /\ WaitedFor(j2)
        /\ extract_queue = <<j2>>

\* The non-blank entries of a urls list, stripped, in input order.
NonBlankSeq(urls) ==
    LET kept == SelectSeq(urls, LAMBDA u : Strip(u) # "")
    IN [i \in 1..Len(kept) |-> Strip(kept[i])]

TimeoutDocument(url) ==
    [page_content |-> "", source |-> url, error |-> OuterTimeoutError]

BatchWaiting == handler.pc = "waiting" /\ handler.path = "/"

\* The job the batch handler submitted for the i-th non-blank URL: a batch
\* submits consecutive jobs, the current one being handler.req.
BatchJob(i) == handler.req - Len(handler.documents) + i - 1

\* The document the batch response owes for job j, submitted for url.
DocumentFor(j, url) ==
    IF j \in abandoned THEN TimeoutDocument(url)
    ELSE BatchDocument(url, req[j].result)

\* The batch handler is inside the HEAD request for its next URL.
BatchInHead == handler.pc = "head"

\* C24: while a batch handler waits, it has submitted exactly the first
\* non-blank URLs of its input, in input order, and is waiting on the last
\* job pushed; every earlier job of the batch was waited for until it was
\* done or the wait timed out, and has exactly one document, in input order:
\* the 'extraction timed out' document if the wait timed out, the job's
\* result otherwise; the same holds while the handler is inside the HEAD
\* request for its next URL, with every submitted job waited for.  When a
\* wait ends, with the job done or timed out, the handler goes on to the next
\* non-blank URL if there is one (the HEAD request for it is sent, or its
\* job is put, or the handler is inside extract_queue.put for it), and
\* otherwise the response is sent with one document per non-blank URL of the
\* input; when the HEAD request returns, the job of that URL is put.
C24_BatchDocuments ==
    /\ [](BatchWaiting =>
            LET n == Len(handler.documents)
                nb == NonBlankSeq(handler.input)
            IN /\ n + 1 + Len(NonBlankSeq(handler.urls)) = Len(nb)
               /\ handler.req = nextReq - 1
               /\ \A i \in 1..(n + 1) :
                     /\ BatchJob(i) \in Jobs
                     /\ req[BatchJob(i)].url = nb[i]
               /\ \A i \in 1..n :
                     /\ req[BatchJob(i)].done \/ BatchJob(i) \in abandoned
                     /\ handler.documents[i] = DocumentFor(BatchJob(i), nb[i]))
    /\ [](BatchInHead =>
            LET n == Len(handler.documents)
                nb == NonBlankSeq(handler.input)
            IN /\ n >= 1
               /\ n + Len(NonBlankSeq(handler.urls)) = Len(nb)
               /\ n < Len(nb)
               /\ Strip(Head(handler.urls)) = nb[n + 1]
               /\ \A i \in 1..n :
                     LET j == nextReq - 1 - n + i IN
                     /\ j \in Jobs
                     /\ req[j].url = nb[i]
                     /\ req[j].done \/ j \in abandoned
                     /\ handler.documents[i] = DocumentFor(j, nb[i]))
    /\ [][/\ (BatchWaiting /\ HandlerReturned) =>
            LET n == Len(handler.documents)
                nb == NonBlankSeq(handler.input)
                timedOut == ~req[handler.req].done
                doc == IF timedOut THEN TimeoutDocument(nb[n + 1])
                       ELSE BatchDocument(nb[n + 1], req[handler.req].result)
            IN /\ timedOut => handler.waitLeft = 0
               /\ IF n + 1 < Len(nb)
                  THEN /\ handler'.pc \in {"head", "waiting", "putting"}
                       /\ handler'.path = "/"
                       /\ handler'.input = handler.input
                       /\ handler'.documents = Append(handler.documents, doc)
                       /\ handler'.pc = "head" <=> SendsHead(nb[n + 2])
                       /\ handler'.pc = "head" =>
                             /\ Len(NonBlankSeq(handler'.urls)) = Len(nb) - n - 1
                             /\ UNCHANGED <<extract_queue, nextReq, req>>
                       /\ handler'.pc # "head" =>
                             /\ handler'.req = nextReq
                             /\ Len(NonBlankSeq(handler'.urls)) = Len(nb) - n - 2
                       /\ handler'.pc = "waiting" =>
                             /\ extract_queue' = Append(extract_queue, nextReq)
                             /\ req'[nextReq].url = nb[n + 2]
                       /\ handler'.pc = "putting" =>
                             UNCHANGED <<extract_queue, nextReq, req>>
                       /\ response' = None
                  ELSE /\ handler' = IdleHandler
                       /\ response' = Some([status |-> 200,
                                            body |-> Append(handler.documents, doc)])
                       /\ Len(response'[1].body) = Len(nb)
                       /\ UNCHANGED <<extract_queue, nextReq>>
          /\ (BatchInHead /\ handler'.pc # "head") =>
            LET n == Len(handler.documents)
                nb == NonBlankSeq(handler.input)
            IN /\ handler'.pc \in {"waiting", "putting"}
               /\ handler'.path = "/"
               /\ handler'.input = handler.input
               /\ handler'.documents = handler.documents
               /\ handler'.req = nextReq
               /\ Len(NonBlankSeq(handler'.urls)) = Len(nb) - n - 1
               /\ handler'.pc = "waiting" =>
                     /\ extract_queue' = Append(extract_queue, nextReq)
                     /\ req'[nextReq].url = nb[n + 1]
               /\ handler'.pc = "putting" =>
                     UNCHANGED <<extract_queue, nextReq, req>>
               /\ response' = None]_vars

\* A batch of three entries with a blank one in the middle: the wait on the
\* first URL timed out, its document is the timed-out one, and the handler
\* is waiting on the job of the other non-blank URL.
C24_Witness ==
    /\ BatchWaiting
    /\ handler.input = <<HttpUrl, BlankUrl, PdfPathUrl>>
    /\ handler.documents = <<TimeoutDocument(HttpUrl)>>
    /\ handler.req = 2
    /\ req[2].url = PdfPathUrl
    /\ 1 \in abandoned /\ ~req[1].done

\* The header carries the key as its bearer token, blanks around the token
\* aside.
HasMatchingBearer(auth) ==
    \E i, k \in 0..Len(auth) :
        auth = BearerPrefix \o [n \in 1..i |-> " "] \o api_key \o [n \in 1..k |-> " "]

\* The handler thread handles the client's POST request in this step.
RequestTaken ==
    /\ handler.pc = "reading" /\ handler'.pc # "reading"
    /\ request # None /\ request[1].method = "POST"

\* The step puts no job on the queue and leaves the handler idle.
NothingEnqueued ==
    /\ UNCHANGED <<extract_queue, nextReq, req>>
    /\ handler'.pc = "idle"

\* The step answers with the given status and enqueues nothing.
RejectedWith(status) ==
    /\ response' # None
    /\ response'[1].status = status
    /\ NothingEnqueued

\* C25: a request that is rejected puts no job on the queue.  With an API
\* key configured, a request without the matching bearer token is answered
\* 401; an authorized request with an empty body or with text that is not
\* JSON is answered 400, as is one to /extract with a missing or blank url
\* and one to / whose urls member is empty or not a list; one to an unknown
\* path is answered 404; and a job is put (or the handler left waiting)
\* only for an authorized request whose body is a JSON object with a
\* non-blank url sent to /extract or a non-empty urls list sent to /.
C25_RejectedEnqueuesNothing ==
    [][RequestTaken =>
        LET r == request[1]
            m == r.members
            authorized == api_key = <<>> \/ HasMatchingBearer(r.auth)
            empty == r.length \in {None, Some("0")}
            parsed == authorized /\ r.length = Some("12") /\ r.json = "object"
            goodUrl == m.url.kind = "string" /\ Strip(m.url.value) # ""
            goodUrls == m.urls.kind = "list" /\ m.urls.list # <<>>
        IN /\ ~authorized => RejectedWith(401)
           /\ (authorized /\ empty) => RejectedWith(400)
           /\ (authorized /\ r.length = Some("12") /\ r.json = "malformed")
                 => RejectedWith(400)
           /\ (parsed /\ r.path = "/extract" /\ m.url.kind # "number" /\ ~goodUrl)
                 => RejectedWith(400)
           /\ (parsed /\ r.path \in {"/", ""} /\ m.urls.kind # "absent" /\ ~goodUrls)
                 => RejectedWith(400)
           /\ (parsed /\ r.path \notin {"/", "", "/extract"}) => RejectedWith(404)
           /\ ~NothingEnqueued =>
                 /\ parsed
                 /\ \/ r.path = "/extract" /\ goodUrl
                    \/ r.path \in {"/", ""} /\ goodUrls]_vars

\* With a key configured, a request carrying another bearer token and an
\* otherwise acceptable body was answered 401, and nothing was enqueued.
C25_Witness ==
    /\ api_key = Key
    /\ request # None
    /\ request[1].method = "POST"
    /\ request[1].auth = BearerPrefix \o <<"x">>
    /\ request[1].path = "/extract"
    /\ request[1].members.url = [kind |-> "string", value |-> HttpUrl]
    /\ response = Some(ErrorResponse(401, "unauthorized"))
    /\ handler.pc = "idle"
    /\ extract_queue = <<>> /\ nextReq = 1

====
